---- MODULE Spec2Model ----
(***************************************************************************)
(* A model of src/src/spotify_extractor.py: the SpotifyExtractor class     *)
(* (the four retrieval operations, get_audio_features, extract_all_data,   *)
(* save_to_json) and the __main__ block.                                   *)
(*                                                                         *)
(* Python values: None is the record None; a dict is a record; a list that *)
(* a function returns where None could be returned instead is PyList(s),   *)
(* so that the two can be told apart.  The Spotify web service is the      *)
(* environment: every call of self.sp.* either raises, returns None, or    *)
(* returns a paging object with at most min(limit, ServiceCap) items.      *)
(***************************************************************************)
EXTENDS Integers, Sequences, FiniteSets, TLC

VARIABLES
    pc,         \* extract_all_data: the statement about to run
    data,       \* extract_all_data: the dict being built (line 93)
    returned,   \* history: what each retrieval call of the run returned
    calls,      \* history: the extractor operations invoked, in order
    af_arg,     \* history: the argument of get_audio_features (line 130)
    last,       \* the last direct call of one operation, with its outcome
    fs,         \* the files that exist: name -> content (a token sequence)
    mainpc,     \* __main__: the statement about to run
    recent,     \* __main__: the variable recent (line 154)
    stdout      \* __main__: the lines the block itself printed

vars == <<pc, data, returned, calls, af_arg, last, fs, mainpc, recent, stdout>>

---------------------------------------------------------------------------
(* Bounds of the model *)

\* Longest items sequence the service returns during extract_all_data.
MaxItems == 1

---------------------------------------------------------------------------
(* Python values *)

None == [py |-> "None"]

PyList(s) == [py |-> "list", v |-> s]

Range(s) == {s[i] : i \in 1..Len(s)}

Min(a, b) == IF a < b THEN a ELSE b

\* All sequences over S of length at most n.
SeqsUpTo(S, n) == UNION {[1..k -> S] : k \in 0..n}

\* Truth value of a dict-or-None: None and the empty dict are false.
Truthy(v) == v # None /\ DOMAIN v # {}

---------------------------------------------------------------------------
(* The Spotify service behind self.sp *)

TrackIds == {"a", "b"}

ArtistIds == {"x"}

\* Service-side cap on the items of one page.
ServiceCap == 50

\* The default of every limit parameter.
DefaultLimit == 50

SpotifyException == [exc |-> "SpotifyException"]

IsException(r) == "exc" \in DOMAIN r

\* One item of a paging object: play-history and saved-track objects wrap
\* the track, top tracks and top artists are the entity itself.
Item(endpoint, id) ==
    IF endpoint \in {"current_user_recently_played", "current_user_saved_tracks"}
    THEN [track |-> [id |-> id]]
    ELSE [id |-> id]

Page(endpoint, ids) == [items |-> [i \in 1..Len(ids) |-> Item(endpoint, ids[i])]]

\* What a request can come back with; pool is the set of id sequences the
\* user's library can produce.
ServiceResponses(request, pool) ==
    {SpotifyException, None}
        \cup {Page(request.endpoint, ids) :
                ids \in {s \in pool : Len(s) <= Min(request.limit, ServiceCap)}}

---------------------------------------------------------------------------
(* The four retrieval operations, lines 31-61 and 79-87 *)

\* The request each operation sends.
recently_played_request(limit) ==
    [endpoint |-> "current_user_recently_played", limit |-> limit]

top_tracks_request_default(time_range, limit) ==
    [endpoint |-> "current_user_top_tracks", time_range |-> time_range,
     limit |-> DefaultLimit]

top_tracks_request(time_range, limit) ==
    [endpoint |-> "current_user_top_tracks", time_range |-> time_range,
     limit |-> limit]

top_artists_request(time_range, limit) ==
    [endpoint |-> "current_user_top_artists", time_range |-> time_range,
     limit |-> limit]

saved_tracks_request(limit) ==
    [endpoint |-> "current_user_saved_tracks", limit |-> limit]

\* The try body: the service call, then len(results['items']) for the
\* status line, then return results.  results['items'] raises TypeError on
\* None and KeyError on a dict without the key.
TryBody(resp) ==
    IF IsException(resp) THEN [raised |-> TRUE, ret |-> None]
    ELSE IF resp = None \/ "items" \notin DOMAIN resp
    THEN [raised |-> TRUE, ret |-> None]
    ELSE [raised |-> FALSE, ret |-> resp]

\* except Exception: print the error, return None.
ExceptReturnNone(body) ==
    IF body.raised THEN [raised |-> FALSE, ret |-> None] ELSE body

get_recently_played_noexcept(resp) == TryBody(resp)

get_recently_played(resp) == ExceptReturnNone(TryBody(resp))

get_top_tracks(resp) == ExceptReturnNone(TryBody(resp))

get_top_artists(resp) == ExceptReturnNone(TryBody(resp))

get_saved_tracks(resp) == ExceptReturnNone(TryBody(resp))

---------------------------------------------------------------------------
(* get_audio_features, lines 63-77 *)

\* Spotify API limits to 100 tracks at a time.
ChunkSize == 100

\* An audio-features object.
Feature(id) == [id |-> id]

\* self.sp.audio_features(batch): one entry per identifier, None for an
\* identifier the service cannot resolve.
Lookup(batch, unresolved) ==
    [k \in 1..Len(batch) |->
        IF batch[k] \in unresolved THEN None ELSE Feature(batch[k])]

IsNotNone(f) == f # None

\* range(0, len(track_ids), 100) still has the index i (0-based).
InRangeInclusive(i, n) == i <= n

InRange(i, n) == i < n

\* track_ids[i:i+100]
BatchShort(track_ids, i) ==
    SubSeq(track_ids, i + 1, Min(i + ChunkSize - 1, Len(track_ids)))

Batch(track_ids, i) ==
    SubSeq(track_ids, i + 1, Min(i + ChunkSize, Len(track_ids)))

\* The for loop from index i on; failAt is the number of the lookup that
\* raises (0: none does).  lookups records every batch sent and what came
\* back for it.
RECURSIVE AudioFeaturesLoop(_, _, _, _, _, _)
AudioFeaturesLoop(track_ids, i, features, lookups, unresolved, failAt) ==
    IF ~InRange(i, Len(track_ids))
    THEN [raised |-> FALSE, features |-> features, lookups |-> lookups]
    ELSE LET batch == Batch(track_ids, i)
             batch_features == Lookup(batch, unresolved)
         IN  IF Len(lookups) + 1 = failAt
             THEN [raised |-> TRUE, features |-> features,
                   lookups |-> Append(lookups, [batch |-> batch,
                                                response |-> SpotifyException])]
             ELSE AudioFeaturesLoop(
                      track_ids, i + ChunkSize,
                      features \o SelectSeq(batch_features, IsNotNone),
                      Append(lookups, [batch |-> batch,
                                       response |-> PyList(batch_features)]),
                      unresolved, failAt)

\* except Exception: print the error, return [].
AudioFeaturesExceptPartial(features) == PyList(features)

AudioFeaturesExcept(features) == PyList(<<>>)

get_audio_features(track_ids, unresolved, failAt) ==
    LET r == AudioFeaturesLoop(track_ids, 0, <<>>, <<>>, unresolved, failAt)
    IN  [raised |-> FALSE,
         ret |-> IF r.raised THEN AudioFeaturesExcept(r.features)
                 ELSE PyList(r.features),
         lookups |-> r.lookups]

---------------------------------------------------------------------------
(* extract_all_data, lines 89-133 *)

\* The statements that call the client, in program order; each names the
\* key of data it assigns.
StepOrderArtistsFirst ==
    <<"recently_played",
      "top_artists_short", "top_artists_medium", "top_artists_long",
      "top_tracks_short", "top_tracks_medium", "top_tracks_long",
      "saved_tracks", "audio_features">>

StepOrder ==
    <<"recently_played",
      "top_tracks_short", "top_tracks_medium", "top_tracks_long",
      "top_artists_short", "top_artists_medium", "top_artists_long",
      "saved_tracks", "audio_features">>

IndexOf(step) == CHOOSE k \in 1..Len(StepOrder) : StepOrder[k] = step

Successor(step) ==
    IF IndexOf(step) < Len(StepOrder) THEN StepOrder[IndexOf(step) + 1]
    ELSE "done"

\* Where control goes once the call of a step has returned ret: on to the
\* next statement, whatever ret is.
AfterCallAbortOnNone(step, ret) ==
    IF ret = None THEN "done" ELSE Successor(step)

AfterCall(step, ret) == Successor(step)

\* data[key] = value
SetItem(d, key, value) == (key :> value) @@ d

\* for key in [...] of line 119
TopTrackKeysAndArtists ==
    {"top_tracks_short", "top_tracks_medium", "top_tracks_long",
     "top_artists_short", "top_artists_medium", "top_artists_long"}

TopTrackKeys == {"top_tracks_short", "top_tracks_medium", "top_tracks_long"}

\* The keys lines 114-127 read.
CollectKeys == {"recently_played", "saved_tracks"} \cup TopTrackKeys

\* The set track_ids of lines 111-127.
track_ids(d) ==
    (IF Truthy(d["recently_played"])
     THEN {item.track.id : item \in Range(d["recently_played"].items)}
     ELSE {})
    \cup UNION {IF Truthy(d[key])
                THEN {item.id : item \in Range(d[key].items)}
                ELSE {} : key \in TopTrackKeys}
    \cup (IF Truthy(d["saved_tracks"])
          THEN {item.track.id : item \in Range(d["saved_tracks"].items)}
          ELSE {})

\* list(s): the elements of the set, each once, in an order Python chooses.
ListsOf(s) == {l \in [1..Cardinality(s) -> s] : Range(l) = s}

\* What the library can return for each kind of entity during a run.
ExtractPool(ids) == SeqsUpTo(ids, MaxItems)

\* data[step] = self.get_...(...): the call is logged, its result stored.
Retrieve(step, call, outcome) ==
    /\ pc = step
    /\ calls' = Append(calls, call)
    /\ IF outcome.raised
       THEN /\ pc' = "raised"
            /\ UNCHANGED <<data, returned>>
       ELSE /\ data' = SetItem(data, step, outcome.ret)
            /\ returned' = SetItem(returned, step, outcome.ret)
            /\ pc' = AfterCall(step, outcome.ret)
    /\ UNCHANGED <<af_arg, last, fs, mainpc, recent, stdout>>

ExtractRecentlyPlayed ==
    \E resp \in ServiceResponses(recently_played_request(DefaultLimit),
                                 ExtractPool(TrackIds)) :
        Retrieve("recently_played",
                 [op |-> "get_recently_played", arg |-> ""],
                 get_recently_played(resp))

Periods == {"short", "medium", "long"}

ExtractTopTracks ==
    \E period \in Periods :
        \E resp \in ServiceResponses(
                        top_tracks_request(period \o "_term", DefaultLimit),
                        ExtractPool(TrackIds)) :
            Retrieve("top_tracks_" \o period,
                     [op |-> "get_top_tracks", arg |-> period \o "_term"],
                     get_top_tracks(resp))

ExtractTopArtists ==
    \E period \in Periods :
        \E resp \in ServiceResponses(
                        top_artists_request(period \o "_term", DefaultLimit),
                        ExtractPool(ArtistIds)) :
            Retrieve("top_artists_" \o period,
                     [op |-> "get_top_artists", arg |-> period \o "_term"],
                     get_top_artists(resp))

ExtractSavedTracks ==
    \E resp \in ServiceResponses(saved_tracks_request(DefaultLimit),
                                 ExtractPool(TrackIds)) :
        Retrieve("saved_tracks",
                 [op |-> "get_saved_tracks", arg |-> ""],
                 get_saved_tracks(resp))

\* Lines 110-133: collect the identifiers, look their features up, return.
\* Reading a key data does not hold raises KeyError.
ExtractAudioFeatures ==
    /\ pc = "audio_features"
    /\ IF ~(CollectKeys \subseteq DOMAIN data)
       THEN /\ pc' = "raised"
            /\ UNCHANGED <<data, calls, af_arg>>
       ELSE \E track_list \in ListsOf(track_ids(data)) :
            \E unresolved \in SUBSET Range(track_list) :
            \E failAt \in 0..1 :
                LET out == get_audio_features(track_list, unresolved, failAt)
                IN  /\ af_arg' = PyList(track_list)
                    /\ calls' = Append(calls, [op |-> "get_audio_features",
                                               arg |-> ""])
                    /\ data' = SetItem(data, "audio_features", out.ret)
                    /\ pc' = AfterCall("audio_features", out.ret)
    /\ UNCHANGED <<returned, last, fs, mainpc, recent, stdout>>

---------------------------------------------------------------------------
(* The operations called directly: one call from the initial state *)

\* No direct call has been made yet.
Idle == [op |-> "none"]

\* Largest limit a caller passes, and the most items a library holds.
MaxLimit == 52

MaxLibrary == 52

\* The first n entries of a library that repeats the identifiers of cycle.
Cycle(cycle, n) == [i \in 1..n |-> cycle[((i - 1) % Len(cycle)) + 1]]

TrackCycles == {<<"a">>, <<"a", "b">>, <<"b", "a", "a">>}

LibraryPool(cycle) == {Cycle(cycle, n) : n \in 0..MaxLibrary}

Limits == 1..MaxLimit

TimeRanges == {"short_term", "medium_term", "long_term"}

CallRecentlyPlayed ==
    /\ last = Idle
    /\ \E limit \in Limits :
       \E resp \in ServiceResponses(recently_played_request(limit),
                                    LibraryPool(<<"a", "b">>)) :
           /\ last' = [op |-> "get_recently_played", limit |-> limit,
                       response |-> resp, outcome |-> get_recently_played(resp)]
           /\ UNCHANGED <<pc, data, returned, calls, af_arg, fs, mainpc, recent,
                          stdout>>

CallTopTracks ==
    /\ last = Idle
    /\ \E time_range \in TimeRanges :
       \E limit \in Limits :
       \E resp \in ServiceResponses(top_tracks_request(time_range, limit),
                                    LibraryPool(<<"a", "b">>)) :
           /\ last' = [op |-> "get_top_tracks", limit |-> limit,
                       response |-> resp, outcome |-> get_top_tracks(resp)]
           /\ UNCHANGED <<pc, data, returned, calls, af_arg, fs, mainpc, recent,
                          stdout>>

CallTopArtists ==
    /\ last = Idle
    /\ \E time_range \in TimeRanges :
       \E limit \in Limits :
       \E resp \in ServiceResponses(top_artists_request(time_range, limit),
                                    LibraryPool(<<"x">>)) :
           /\ last' = [op |-> "get_top_artists", limit |-> limit,
                       response |-> resp, outcome |-> get_top_artists(resp)]
           /\ UNCHANGED <<pc, data, returned, calls, af_arg, fs, mainpc, recent,
                          stdout>>

CallSavedTracks ==
    /\ last = Idle
    /\ \E limit \in Limits :
       \E resp \in ServiceResponses(saved_tracks_request(limit),
                                    LibraryPool(<<"a", "b">>)) :
           /\ last' = [op |-> "get_saved_tracks", limit |-> limit,
                       response |-> resp, outcome |-> get_saved_tracks(resp)]
           /\ UNCHANGED <<pc, data, returned, calls, af_arg, fs, mainpc, recent,
                          stdout>>

\* Longest identifier list passed to get_audio_features, and the latest
\* lookup that may fail.
MaxTracks == 201

MaxFailAt == 3

CallAudioFeatures ==
    /\ last = Idle
    /\ \E cycle \in TrackCycles :
       \E n \in 0..MaxTracks :
       \E unresolved \in SUBSET TrackIds :
       \E failAt \in 0..MaxFailAt :
           /\ last' = [op |-> "get_audio_features",
                       track_ids |-> Cycle(cycle, n),
                       unresolved |-> unresolved, failAt |-> failAt,
                       outcome |-> get_audio_features(Cycle(cycle, n),
                                                      unresolved, failAt)]
           /\ UNCHANGED <<pc, data, returned, calls, af_arg, fs, mainpc, recent,
                          stdout>>

---------------------------------------------------------------------------
(* The __main__ block, lines 148-165 *)

\* get_recently_played(limit=5)
ProbeLimit == 5

\* Most items the probed library holds.
MaxProbeLibrary == 6

\* extractor = SpotifyExtractor(): the constructor is not guarded, a failure
\* of the OAuth set-up ends the program.
MainConstruct ==
    /\ mainpc = "construct"
    /\ \E ok \in BOOLEAN :
        mainpc' = IF ok THEN "probe" ELSE "construct_failed"
    /\ UNCHANGED <<pc, data, returned, calls, af_arg, last, fs, recent, stdout>>

\* Lines 153-154.
MainProbe ==
    /\ mainpc = "probe"
    /\ \E resp \in ServiceResponses(recently_played_request(ProbeLimit),
                                    SeqsUpTo(TrackIds, MaxProbeLibrary)) :
        LET out == get_recently_played(resp)
        IN  /\ calls' = Append(calls, [op |-> "get_recently_played",
                                       arg |-> ToString(ProbeLimit)])
            /\ stdout' = Append(stdout, "Testing with recently played tracks...")
            /\ IF out.raised
               THEN mainpc' = "crashed" /\ UNCHANGED recent
               ELSE mainpc' = "report" /\ recent' = out.ret
    /\ UNCHANGED <<pc, data, returned, af_arg, last, fs>>

\* Lines 156-165.  recent['items'][0] raises IndexError on an empty list,
\* before anything is printed; nothing catches it.
MainReport ==
    /\ mainpc = "report"
    /\ IF Truthy(recent)
       THEN IF Len(recent.items) = 0
            THEN mainpc' = "crashed" /\ UNCHANGED stdout
            ELSE /\ stdout' = stdout \o <<"Sample track",
                                          "Spotify connection working!">>
                 /\ mainpc' = "exit"
       ELSE /\ stdout' = Append(stdout,
                                "Connection failed - check your credentials")
            /\ mainpc' = "exit"
    /\ UNCHANGED <<pc, data, returned, calls, af_arg, last, fs, recent>>

---------------------------------------------------------------------------
(* JSON text: json.dump(data, f, indent=2) and the decoder that reads it *)

\* JSON values, tagged by kind; a dict keeps its keys in insertion order.
JNull == [j |-> "null"]

JStr(s) == [j |-> "str", s |-> s]

JList(v) == [j |-> "list", v |-> v]

JDict(members) == [j |-> "dict", v |-> members]

Member(key, value) == [k |-> key, v |-> value]

\* The encoder's dispatch on the Python type, for the values a document
\* holds: None, a paging object, an item, a track, a list of features.
JsonOfEntity(e) == JDict(<<Member("id", JStr(e.id))>>)

JsonOfItem(item) ==
    IF "track" \in DOMAIN item
    THEN JDict(<<Member("track", JsonOfEntity(item.track))>>)
    ELSE JsonOfEntity(item)

JsonOfValue(v) ==
    IF v = None THEN JNull
    ELSE IF "items" \in DOMAIN v
    THEN JDict(<<Member("items",
                        JList([i \in 1..Len(v.items) |-> JsonOfItem(v.items[i])]))>>)
    ELSE JList([i \in 1..Len(v.v) |-> JsonOfEntity(v.v[i])])

\* The document, its keys in the order extract_all_data inserted them.
JsonOfDocument(doc) ==
    LET keys == SelectSeq(StepOrder, LAMBDA k : k \in DOMAIN doc)
    IN  JDict([i \in 1..Len(keys) |-> Member(keys[i], JsonOfValue(doc[keys[i]]))])

Quote(s) == "\"" \o s \o "\""

\* A line break and the indentation of a nesting level, two spaces each.
Newline(level) == <<"\n">> \o [i \in 1..(2 * level) |-> " "]

RECURSIVE Encode(_, _)
RECURSIVE EncodeElements(_, _, _)
RECURSIVE EncodeMembers(_, _, _)

\* The text of value j at a nesting level, as a sequence of tokens.
Encode(j, level) ==
    CASE j.j = "null" -> <<"null">>
      [] j.j = "str"  -> <<Quote(j.s)>>
      [] j.j = "list" ->
            IF Len(j.v) = 0 THEN <<"[", "]">>
            ELSE <<"[">> \o EncodeElements(j.v, 1, level + 1)
                         \o Newline(level) \o <<"]">>
      [] j.j = "dict" ->
            IF Len(j.v) = 0 THEN <<"{", "}">>
            ELSE <<"{">> \o EncodeMembers(j.v, 1, level + 1)
                         \o Newline(level) \o <<"}">>

EncodeElements(v, k, level) ==
    Newline(level) \o Encode(v[k], level)
        \o (IF k < Len(v) THEN <<",">> \o EncodeElements(v, k + 1, level)
            ELSE <<>>)

EncodeMembers(v, k, level) ==
    Newline(level) \o <<Quote(v[k].k), ":", " ">> \o Encode(v[k].v, level)
        \o (IF k < Len(v) THEN <<",">> \o EncodeMembers(v, k + 1, level)
            ELSE <<>>)

\* The strings a document holds: its keys and the identifiers.
JsonStrings ==
    Range(StepOrder) \cup {"items", "track", "id"} \cup TrackIds \cup ArtistIds

IsStringToken(tok) == \E s \in JsonStrings : Quote(s) = tok

Unquote(tok) == CHOOSE s \in JsonStrings : Quote(s) = tok

IsNotWhitespace(tok) == tok \notin {"\n", " "}

ParseFailure == [ok |-> FALSE, val |-> JNull, pos |-> 0]

Parsed(val, pos) == [ok |-> TRUE, val |-> val, pos |-> pos]

RECURSIVE ParseValue(_, _)
RECURSIVE ParseElements(_, _, _)
RECURSIVE ParseMembers(_, _, _)

\* The value that starts at token p of t, and the position after it.
ParseValue(t, p) ==
    IF p > Len(t) THEN ParseFailure
    ELSE IF t[p] = "null" THEN Parsed(JNull, p + 1)
    ELSE IF IsStringToken(t[p]) THEN Parsed(JStr(Unquote(t[p])), p + 1)
    ELSE IF t[p] = "["
    THEN IF p + 1 <= Len(t) /\ t[p + 1] = "]" THEN Parsed(JList(<<>>), p + 2)
         ELSE ParseElements(t, p + 1, <<>>)
    ELSE IF t[p] = "{"
    THEN IF p + 1 <= Len(t) /\ t[p + 1] = "}" THEN Parsed(JDict(<<>>), p + 2)
         ELSE ParseMembers(t, p + 1, <<>>)
    ELSE ParseFailure

ParseElements(t, p, acc) ==
    LET r == ParseValue(t, p)
    IN  IF ~r.ok \/ r.pos > Len(t) THEN ParseFailure
        ELSE IF t[r.pos] = "," THEN ParseElements(t, r.pos + 1, Append(acc, r.val))
        ELSE IF t[r.pos] = "]" THEN Parsed(JList(Append(acc, r.val)), r.pos + 1)
        ELSE ParseFailure

ParseMembers(t, p, acc) ==
    IF p + 1 > Len(t) \/ ~IsStringToken(t[p]) \/ t[p + 1] # ":"
    THEN ParseFailure
    ELSE LET r == ParseValue(t, p + 2)
             m == Member(Unquote(t[p]), r.val)
         IN  IF ~r.ok \/ r.pos > Len(t) THEN ParseFailure
             ELSE IF t[r.pos] = "," THEN ParseMembers(t, r.pos + 1, Append(acc, m))
             ELSE IF t[r.pos] = "}" THEN Parsed(JDict(Append(acc, m)), r.pos + 1)
             ELSE ParseFailure

\* json.load: one value, white space skipped, nothing after it.
Decode(text) ==
    LET t == SelectSeq(text, IsNotWhitespace)
        r == ParseValue(t, 1)
    IN  IF r.ok /\ r.pos = Len(t) + 1 THEN r ELSE ParseFailure

---------------------------------------------------------------------------
(* save_to_json, lines 135-144 *)

PyStr(s) == [py |-> "str", v |-> s]

\* Wall-clock times datetime.now() returns.
Times ==
    {[year |-> 2024, month |-> 1, day |-> 5, hour |-> 9, minute |-> 3,
      second |-> 7],
     [year |-> 2025, month |-> 12, day |-> 31, hour |-> 23, minute |-> 59,
      second |-> 58]}

GivenNames == {"out.json"}

\* %m, %d, %H, %M, %S: two digits, zero-padded.
Pad2(n) == IF n < 10 THEN "0" \o ToString(n) ELSE ToString(n)

\* now.strftime("%Y%m%d_%H%M%S")
strftime(now) ==
    ToString(now.year) \o Pad2(now.month) \o Pad2(now.day) \o "_"
        \o Pad2(now.hour) \o Pad2(now.minute) \o Pad2(now.second)

\* Lines 137-139.
destination(filename, now) ==
    IF filename = None THEN "spotify_data_" \o strftime(now) \o ".json"
    ELSE filename.v

\* open(filename, 'w'): the file exists and is empty.
OpenAppend(files, name) ==
    IF name \in DOMAIN files THEN files ELSE (name :> <<>>) @@ files

OpenWrite(files, name) == (name :> <<>>) @@ files

\* f.write: the text goes after what the open file holds.
Write(files, name, text) == [files EXCEPT ![name] = @ \o text]

\* The documents passed to save_to_json.
SampleDocuments ==
    {[recently_played |-> rp, top_tracks_short |-> tt, top_tracks_medium |-> None,
      top_tracks_long |-> tt, top_artists_short |-> ta,
      top_artists_medium |-> None, top_artists_long |-> ta,
      saved_tracks |-> st, audio_features |-> af] :
        rp \in {None, Page("current_user_recently_played", <<"a", "b">>)},
        tt \in {None, Page("current_user_top_tracks", <<"b">>)},
        ta \in {Page("current_user_top_artists", <<>>),
                Page("current_user_top_artists", <<"x">>)},
        st \in {None, Page("current_user_saved_tracks", <<"a">>)},
        af \in {PyList(<<>>), PyList(<<Feature("a"), Feature("b")>>)}}

\* The files found on disk before the call: none, or one at a name the
\* call may write to, holding other text or an earlier, longer document.
OldTexts ==
    {<<"old", "text">>,
     Encode(JsonOfDocument(
                [recently_played |-> Page("current_user_recently_played",
                                          <<"b", "b", "a">>),
                 top_tracks_short |-> Page("current_user_top_tracks", <<"a", "b">>),
                 top_tracks_medium |-> Page("current_user_top_tracks", <<"a">>),
                 top_tracks_long |-> Page("current_user_top_tracks", <<"b">>),
                 top_artists_short |-> Page("current_user_top_artists", <<"x">>),
                 top_artists_medium |-> None,
                 top_artists_long |-> Page("current_user_top_artists", <<"x", "x">>),
                 saved_tracks |-> Page("current_user_saved_tracks", <<"a", "b">>),
                 audio_features |-> PyList(<<Feature("a"), Feature("b")>>)]), 0)}

ExistingFiles ==
    {<<>>} \cup {(name :> text) :
                    name \in GivenNames \cup {destination(None, t) : t \in Times},
                    text \in OldTexts}

\* One call of save_to_json; open() may fail (the directory is missing, the
\* file is not writable), and the failure propagates.
SaveToJson ==
    /\ last = Idle
    /\ \E doc \in SampleDocuments :
       \E filename \in {None} \cup {PyStr(n) : n \in GivenNames} :
       \E now \in Times :
       \E opened \in BOOLEAN :
            LET name == destination(filename, now)
            IN  /\ last' = [op |-> "save_to_json", data |-> doc,
                            filename |-> filename, now |-> now,
                            before |-> fs, raised |-> ~opened]
                /\ fs' = IF opened
                         THEN Write(OpenWrite(fs, name), name,
                                    Encode(JsonOfDocument(doc), 0))
                         ELSE fs
    /\ UNCHANGED <<pc, data, returned, calls, af_arg, mainpc, recent, stdout>>

---------------------------------------------------------------------------
(* Specifications *)

\* The state before anything has run; start names where extract_all_data
\* and the __main__ block stand, files the files that exist.
Start(pc0, mainpc0, files) ==
    /\ pc = pc0
    /\ data = <<>>
    /\ returned = <<>>
    /\ calls = <<>>
    /\ af_arg = None
    /\ last = Idle
    /\ fs = files
    /\ mainpc = mainpc0
    /\ recent = None
    /\ stdout = <<>>

\* One run of extract_all_data.
Init == Start(StepOrder[1], "off", <<>>)

Next ==
    \/ ExtractRecentlyPlayed
    \/ ExtractTopTracks
    \/ ExtractTopArtists
    \/ ExtractSavedTracks
    \/ ExtractAudioFeatures

Spec == Init /\ [][Next]_vars

\* Direct calls of the four retrieval operations.
InitRetrieval == Start("off", "off", <<>>)

NextRetrieval ==
    \/ CallRecentlyPlayed
    \/ CallTopTracks
    \/ CallTopArtists
    \/ CallSavedTracks

SpecRetrieval == InitRetrieval /\ [][NextRetrieval]_vars

\* Direct calls of get_audio_features.
InitAudio == Start("off", "off", <<>>)

NextAudio == CallAudioFeatures

SpecAudio == InitAudio /\ [][NextAudio]_vars

\* The program run as a script.
InitMain == Start("off", "construct", <<>>)

NextMain ==
    \/ MainConstruct
    \/ MainProbe
    \/ MainReport

SpecMain == InitMain /\ [][NextMain]_vars

\* Calls of save_to_json, the destination holding a file or not.
InitSave == \E files \in ExistingFiles : Start("off", "off", files)

NextSave == SaveToJson

SpecSave == InitSave /\ [][NextSave]_vars

---------------------------------------------------------------------------
(* Properties of extract_all_data, checked under Spec *)

TrackResultKeys ==
    {"recently_played", "top_tracks_short", "top_tracks_medium",
     "top_tracks_long", "saved_tracks"}

RetrievalKeys ==
    TrackResultKeys
        \cup {"top_artists_short", "top_artists_medium", "top_artists_long"}

\* The track identifiers of the items of a result the call of key returned;
\* an absent result has none.
IdsOfResult(key, r) ==
    IF r = None THEN {}
    ELSE {IF key \in {"recently_played", "saved_tracks"}
          THEN r.items[i].track.id ELSE r.items[i].id : i \in 1..Len(r.items)}

\* C1: the list passed to get_audio_features holds no identifier twice, and
\* its elements are exactly the track identifiers of the successful
\* recently-played, top-tracks and saved-tracks results; no artist
\* identifier is among them.
C1_IdentifierSetIsUnion ==
    af_arg # None =>
        /\ \A i, j \in 1..Len(af_arg.v) : i # j => af_arg.v[i] # af_arg.v[j]
        /\ Range(af_arg.v) =
               UNION {IdsOfResult(k, returned[k]) : k \in TrackResultKeys}
        /\ Range(af_arg.v) \cap ArtistIds = {}

\* A finished run in which two categories returned the same track, a third
\* another one, one top-tracks call failed and an artist result had an item.
C1_Witness ==
    /\ pc = "done"
    /\ IdsOfResult("recently_played", returned["recently_played"]) = {"a"}
    /\ IdsOfResult("saved_tracks", returned["saved_tracks"]) = {"a"}
    /\ IdsOfResult("top_tracks_medium", returned["top_tracks_medium"]) = {"b"}
    /\ returned["top_tracks_short"] = None
    /\ returned["top_artists_short"] # None
    /\ Len(returned["top_artists_short"].items) = 1
    /\ Len(af_arg.v) = 2

FailedKeys == {k \in DOMAIN returned : returned[k] = None}

\* C2: the run never aborts, and when exactly one of the eight retrieval
\* calls returned None the returned document has all eight keys, each
\* holding what its call returned (None for the failed one).
C2_OneFailureKeepsTheRest ==
    /\ pc # "raised"
    /\ (pc = "done" /\ Cardinality(FailedKeys) = 1) =>
            /\ RetrievalKeys \subseteq DOMAIN data
            /\ RetrievalKeys \subseteq DOMAIN returned
            /\ \A k \in RetrievalKeys : data[k] = returned[k]
            /\ \A k \in FailedKeys : data[k] = None

\* A finished run whose only failed call is the sixth, with items before
\* and after it.
C2_Witness ==
    /\ pc = "done"
    /\ FailedKeys = {"top_artists_medium"}
    /\ Len(data["recently_played"].items) = 1
    /\ Len(data["saved_tracks"].items) = 1

ExpectedCalls ==
    <<[op |-> "get_recently_played", arg |-> ""],
      [op |-> "get_top_tracks", arg |-> "short_term"],
      [op |-> "get_top_tracks", arg |-> "medium_term"],
      [op |-> "get_top_tracks", arg |-> "long_term"],
      [op |-> "get_top_artists", arg |-> "short_term"],
      [op |-> "get_top_artists", arg |-> "medium_term"],
      [op |-> "get_top_artists", arg |-> "long_term"],
      [op |-> "get_saved_tracks", arg |-> ""],
      [op |-> "get_audio_features", arg |-> ""]>>

\* C10: at every point of a run the operations invoked so far are the
\* first ones of the fixed order, each once; a finished run has invoked all
\* nine, get_audio_features last; no run ends early.
C10_FixedCallOrder ==
    /\ Len(calls) <= Len(ExpectedCalls)
    /\ calls = SubSeq(ExpectedCalls, 1, Len(calls))
    /\ pc = "done" => calls = ExpectedCalls
    /\ pc # "raised"

\* A finished run in which the first and the fourth call failed.
C10_Witness ==
    /\ pc = "done"
    /\ returned["recently_played"] = None
    /\ returned["top_tracks_long"] = None
    /\ Len(calls) = 9
    /\ calls[9].op = "get_audio_features"

---------------------------------------------------------------------------
(* Properties of the retrieval operations, checked under SpecRetrieval *)

RetrievalOps ==
    {"get_recently_played", "get_top_tracks", "get_top_artists",
     "get_saved_tracks"}

\* C5: a retrieval operation never raises; it returns None when the service
\* call raised, and the service's result when the call returned one.
C5_FailureBecomesNone ==
    last.op \in RetrievalOps =>
        /\ ~last.outcome.raised
        /\ IsException(last.response) => last.outcome.ret = None
        /\ ~IsException(last.response) => last.outcome.ret = last.response

\* A call of get_saved_tracks whose service call raised.
C5_Witness ==
    /\ last.op = "get_saved_tracks"
    /\ IsException(last.response)
    /\ last.outcome.ret = None
    /\ ~last.outcome.raised

\* C7: a result other than None has an items sequence no longer than the
\* requested limit and than the service's cap.
C7_ItemsWithinLimit ==
    (last.op \in RetrievalOps /\ last.outcome.ret # None) =>
        /\ "items" \in DOMAIN last.outcome.ret
        /\ Len(last.outcome.ret.items) <= Min(last.limit, ServiceCap)

\* A call of get_top_tracks with a limit of 5 that returned 5 items.
C7_Witness ==
    /\ last.op = "get_top_tracks"
    /\ last.limit = 5
    /\ last.outcome.ret # None
    /\ Len(last.outcome.ret.items) = 5

---------------------------------------------------------------------------
(* Properties of get_audio_features, checked under SpecAudio *)

\* ceil(n / 100)
ChunkCount(n) == (n + 99) \div 100

\* One of the lookups the input needs raises.
SomeLookupFails(call) ==
    call.failAt \in 1..ChunkCount(Len(call.track_ids))

RECURSIVE Flatten(_)
Flatten(lists) ==
    IF Len(lists) = 0 THEN <<>> ELSE Head(lists) \o Flatten(Tail(lists))

\* The records one lookup returned that are not None; none if it raised.
RecordsOf(lookup) ==
    IF IsException(lookup.response) THEN <<>>
    ELSE SelectSeq(lookup.response.v, LAMBDA f : f # None)

\* ceil(N/100) lookups were sent, their batches partition the input in
\* order in chunks of at most 100, and the output is the records the
\* lookups returned, None left out, in order: one record for each
\* occurrence of a resolvable identifier of the input.
ChunkedLookups(call) ==
    LET n == Len(call.track_ids)
        sent == call.outcome.lookups
        kept == SelectSeq(call.track_ids, LAMBDA id : id \notin call.unresolved)
    IN  /\ Len(sent) = ChunkCount(n)
        /\ \A k \in 1..Len(sent) : Len(sent[k].batch) <= 100
        /\ Flatten([k \in 1..Len(sent) |-> sent[k].batch]) = call.track_ids
        /\ call.outcome.ret =
               PyList(Flatten([k \in 1..Len(sent) |-> RecordsOf(sent[k])]))
        /\ ~SomeLookupFails(call) =>
               call.outcome.ret = PyList([i \in 1..Len(kept) |-> [id |-> kept[i]]])

C4_FailureReturnsEmpty ==
    (last.op = "get_audio_features" /\ SomeLookupFails(last)) =>
        /\ ~last.outcome.raised
        /\ last.outcome.ret # None
        /\ last.outcome.ret = PyList(<<>>)

\* The second lookup fails after the first one returned 100 records.
C4_Witness ==
    /\ last.op = "get_audio_features"
    /\ Len(last.track_ids) > 100
    /\ last.unresolved = {}
    /\ last.failAt = 2
    /\ Len(last.outcome.lookups) = 2
    /\ last.outcome.ret = PyList(<<>>)

\* C6: on the empty list the call returns the empty list, does not raise
\* and sends no lookup.
C6_EmptyInput ==
    (last.op = "get_audio_features" /\ Len(last.track_ids) = 0) =>
        /\ ~last.outcome.raised
        /\ last.outcome.ret = PyList(<<>>)
        /\ last.outcome.lookups = <<>>

\* The empty list, with a service whose first lookup would fail.
C6_Witness ==
    /\ last.op = "get_audio_features"
    /\ last.track_ids = <<>>
    /\ last.failAt = 1
    /\ last.outcome.ret = PyList(<<>>)

---------------------------------------------------------------------------
(* Property of the __main__ block, checked under SpecMain *)

FinalMessages ==
    {"Spotify connection working!", "Connection failed - check your credentials"}

\* C8: once the client is constructed the block makes one probe with limit
\* 5 and ends with the success or the failure message, whatever the probe
\* returned; it neither runs the extraction nor writes a file.
C8_AlwaysReports ==
    /\ mainpc \in {"report", "exit", "crashed"} =>
            calls = <<[op |-> "get_recently_played", arg |-> "5"]>>
    /\ mainpc # "crashed"
    /\ mainpc = "exit" => stdout[Len(stdout)] \in FinalMessages
    /\ pc = "off"
    /\ fs = <<>>

---------------------------------------------------------------------------
(* Property of save_to_json, checked under SpecSave *)

Digit(d) == <<"0", "1", "2", "3", "4", "5", "6", "7", "8", "9">>[d + 1]

TwoDigits(n) == Digit((n \div 10) % 10) \o Digit(n % 10)

\* spotify_data_<YYYYMMDD>_<HHMMSS>.json
DefaultName(t) ==
    "spotify_data_" \o TwoDigits(t.year \div 100) \o TwoDigits(t.year % 100)
        \o TwoDigits(t.month) \o TwoDigits(t.day) \o "_"
        \o TwoDigits(t.hour) \o TwoDigits(t.minute) \o TwoDigits(t.second)
        \o ".json"

SavedName == IF last.filename = None THEN DefaultName(last.now) ELSE last.filename.v

\* C9: after a completed call the destination (the given name, or the
\* default name of the current time) holds the encoding of the document and
\* nothing else, decoding it gives the document back, and no other file has
\* changed.
C9_FileHoldsDocument ==
    (last.op = "save_to_json" /\ ~last.raised) =>
        /\ SavedName \in DOMAIN fs
        /\ fs[SavedName] = Encode(JsonOfDocument(last.data), 0)
        /\ Decode(fs[SavedName]).ok
        /\ Decode(fs[SavedName]).val = JsonOfDocument(last.data)
        /\ \A name \in DOMAIN last.before :
                name # SavedName => fs[name] = last.before[name]

\* A call without a name, at 09:03:07 on 2024-01-05, that replaced a longer
\* file found at the default name.
C9_Witness ==
    /\ last.op = "save_to_json"
    /\ ~last.raised
    /\ last.filename = None
    /\ last.now.hour = 9
    /\ "spotify_data_20240105_090307.json" \in DOMAIN last.before
    /\ "spotify_data_20240105_090307.json" \in DOMAIN fs
    /\ Len(last.before["spotify_data_20240105_090307.json"])
           > Len(fs["spotify_data_20240105_090307.json"])
    /\ last.data["recently_played"] # None

====
